---- MODULE Spec2Model ----
(***************************************************************************)
(* Model of src/src/lib/scorm.ts: the SCORM 1.2 session wrapper            *)
(* (class ScormWrapper, the singleton `scorm`) and the course progress     *)
(* store (the React hook useCourseProgress) that drives it.                *)
(*                                                                         *)
(* JavaScript values are tagged records. An object carries its own keys in *)
(* property order (integer-like keys ascending, then the others in         *)
(* insertion order) and a function from keys to values; a key may hold     *)
(* undefined. Numbers are integers or NaN. JSON text is a document tree    *)
(* whose objects are member lists, so that JSON.parse and JSON.stringify   *)
(* are conversions between two different things.                           *)
(***************************************************************************)
EXTENDS Integers, Sequences, FiniteSets

\* ------------------------------------------------------------------ bounds

\* lessonId arguments range over 0 .. TOTAL_LESSONS + MaxExtraId
MaxExtraId == 1
\* quizScore arguments range over undefined and 0 .. MaxScore
MaxScore == 0
\* lessons 1 .. MaxQuizLesson end with a quiz (their completion passes a score)
MaxQuizLesson == 1
\* successful handshakes modelled per page load (each one registers hooks)
MaxHooks == 2
\* windows in the hierarchy that runtime discovery searches
MaxWindows == 2

\* --------------------------------------------------------------- constants

TOTAL_LESSONS == 7

\* findAPI climbs at most this many parents.
maxAttempts == 500

LessonIdArgs == 0..(TOTAL_LESSONS + MaxExtraId)

\* Arguments of isLessonAccessible: the first lessons and the largest id.
AccessArgs == {1, 2, 3, TOTAL_LESSONS + MaxExtraId}

\* An optional argument: <<>> is undefined, <<v>> is the value v.
QuizScoreArgs == {<<>>} \cup {<<s>> : s \in 0..MaxScore}

\* The quizScore arguments passed when completing lesson lessonId.
QuizScoreArgsFor(lessonId) == IF lessonId \in 1..MaxQuizLesson THEN QuizScoreArgs ELSE {<<>>}

\* What the LMS runtime may answer to LMSInitialize/LMSSetValue/LMSCommit/LMSFinish.
RuntimeAnswers == {"true", "false"}

\* What the LMS runtime may answer to LMSGetValue.
RuntimeValues == {"", "completed"}

Elements == {"cmi.core.lesson_status", "cmi.core.student_name", "cmi.core.student_id"}

LessonStatuses == {"completed", "incomplete"}

\* -------------------------------------------------------- JavaScript values

Undefined == [t |-> "undefined"]
Null == [t |-> "null"]
NaN == [t |-> "NaN"]
Num(n) == [t |-> "number", n |-> n]
Bool(b) == [t |-> "boolean", b |-> b]
\* A string value is the sequence of its characters.
Str(chars) == [t |-> "string", chars |-> chars]
Arr(items) == [t |-> "array", items |-> items]
Obj(keys, val) == [t |-> "object", keys |-> keys, val |-> val]

EmptyObject == Obj(<<>>, [k \in {} |-> Undefined])

Nullish(v) == v.t \in {"undefined", "null"}

\* ToBoolean
ToBoolean(v) ==
    CASE v.t \in {"undefined", "null", "NaN"} -> FALSE
      [] v.t = "number" -> v.n # 0
      [] v.t = "boolean" -> v.b
      [] v.t = "string" -> v.chars # <<>>
      [] OTHER -> TRUE

\* The decimal numeral of a natural number.
Digits == <<"0", "1", "2", "3", "4", "5", "6", "7", "8", "9">>

RECURSIVE Decimal(_)
Decimal(n) == IF n < 10 THEN Digits[n + 1] ELSE Decimal(n \div 10) \o Digits[(n % 10) + 1]

\* The digit each character of the key k stands for, -1 for any other
\* character.
KeyDigits(k) ==
    [i \in 1..Len(k) |->
        LET c == SubSeq(k, i, i)
        IN  IF \E d \in 1..10 : Digits[d] = c
            THEN (CHOOSE d \in 1..10 : Digits[d] = c) - 1
            ELSE -1]

\* The digit sequence a comes before the digit sequence b of the same length.
DigitsBelow(a, b) ==
    \E i \in 1..Len(a) :
        /\ a[i] < b[i]
        /\ \A j \in 1..(i - 1) : a[j] = b[j]

\* The digits of 2^32 - 2, the largest array index.
MaxArrayIndex == <<4, 2, 9, 4, 9, 6, 7, 2, 9, 4>>

\* k is an integer-like key (an array index): the canonical decimal numeral,
\* without sign or leading zero, of an integer in 0 .. 2^32 - 2.
IsArrayIndex(k) ==
    /\ Len(k) \in 1..10
    /\ \A i \in 1..Len(k) : \E d \in 1..10 : Digits[d] = SubSeq(k, i, i)
    /\ Len(k) > 1 => SubSeq(k, 1, 1) # "0"
    /\ Len(k) = 10 =>
          LET ds == KeyDigits(k)
          IN  ds = MaxArrayIndex \/ DigitsBelow(ds, MaxArrayIndex)

\* The integer-like key j denotes a smaller integer than the integer-like
\* key k.
IndexBelow(j, k) ==
    \/ Len(j) < Len(k)
    \/ Len(j) = Len(k) /\ DigitsBelow(KeyDigits(j), KeyDigits(k))

\* The keys of an object after property k was created: integer-like keys are
\* kept in ascending order before all other keys, which stay in creation order.
KeysWith(keys, k) ==
    IF ~IsArrayIndex(k) THEN Append(keys, k)
    ELSE LET before == {i \in 1..Len(keys) :
                           IsArrayIndex(keys[i]) /\ IndexBelow(keys[i], k)}
         IN  SubSeq(keys, 1, Cardinality(before)) \o <<k>>
                \o SubSeq(keys, Cardinality(before) + 1, Len(keys))

Has(o, k) == o.t = "object" /\ k \in DOMAIN o.val

\* o[k] = v on an object o
Put(o, k, v) ==
    IF k \in DOMAIN o.val
    THEN Obj(o.keys, [o.val EXCEPT ![k] = v])
    ELSE Obj(KeysWith(o.keys, k),
             [j \in DOMAIN o.val \cup {k} |-> IF j = k THEN v ELSE o.val[j]])

\* The members <<key, value>> are assigned to o in order.
RECURSIVE PutAll(_, _)
PutAll(o, members) ==
    IF members = <<>> THEN o
    ELSE PutAll(Put(o, members[1][1], members[1][2]), Tail(members))

\* v.k for a property k that only objects can own; v is not null or undefined.
Get(v, k) == IF Has(v, k) THEN v.val[k] ELSE Undefined

\* The own enumerable properties of v, in property order.
OwnMembers(v) ==
    CASE v.t = "object" -> [i \in 1..Len(v.keys) |-> <<v.keys[i], v.val[v.keys[i]]>>]
      [] v.t = "array" -> [i \in 1..Len(v.items) |-> <<Decimal(i - 1), v.items[i]>>]
      [] v.t = "string" -> [i \in 1..Len(v.chars) |-> <<Decimal(i - 1), Str(<<v.chars[i]>>)>>]
      [] OTHER -> <<>>

\* { ...v, k1: v1, k2: v2 } with members = << <<k1, v1>>, <<k2, v2>> >>
Spread(v, members) ==
    PutAll(IF v.t = "object" THEN v ELSE PutAll(EmptyObject, OwnMembers(v)), members)

\* The percentages p for which (num / den) * 100, computed in double
\* precision for a quotient that is exactly p + 1/2 percent, lies below
\* p + 1/2: 14.499999999999998, 28.499999999999996, 56.49999999999999 and
\* 57.49999999999999. Every other tie is computed exactly.
TiesBelowHalf == {14, 28, 56, 57}

\* The fraction is floored instead of rounded.
MathRoundPercent_Truncated(num, den) ==
    IF den = 0 THEN NaN ELSE Num((100 * num) \div den)

\* Math.round((num / den) * 100) for integers 0 <= num <= den: NaN for 0 / 0;
\* otherwise the nearest integer of the double. The double differs from the
\* exact quotient by far less than the distance of any quotient that is not
\* a tie to the nearest tie, so only exact ties depend on the arithmetic.
MathRoundPercent(num, den) ==
    IF den = 0 THEN NaN
    ELSE LET up == (200 * num + den) \div (2 * den)
         IN  IF (200 * num + den) % (2 * den) = 0 /\ (up - 1) \in TiesBelowHalf
             THEN Num(up - 1)
             ELSE Num(up)

\* Return values of the operations.
BoolRet(b) == [bool |-> b]
StrRet(s) == [str |-> s]
NoRet == [void |-> TRUE]
\* A returned JavaScript value.
ValueRet(v) == IF v.t = "boolean" THEN BoolRet(v.b) ELSE [value |-> v]

\* ------------------------------------------------------------ JSON text

JNum(n) == [t |-> "number", n |-> n]
JBool(b) == [t |-> "bool", b |-> b]
JNull == [t |-> "null"]
JStr(chars) == [t |-> "string", chars |-> chars]
JArr(items) == [t |-> "array", items |-> items]
\* members is the sequence of <<key, document>> as written
JObj(members) == [t |-> "object", members |-> members]

\* localStorage.getItem results: null, or a string that is JSON text or is not.
NoItem == [kind |-> "null"]
JsonText(doc) == [kind |-> "json", doc |-> doc]
RawText(s) == [kind |-> "raw", text |-> s]

\* The text of a value that is not undefined: NaN is written as null, an
\* undefined array element as null, and a member whose value is undefined is
\* left out; members are written in property order.
RECURSIVE StringifyValue(_), StringifyMembers(_, _)

\* A member whose value is undefined is written as null.
StringifyMembers_UndefinedAsNull(v, i) ==
    IF i > Len(v.keys) THEN <<>>
    ELSE LET k == v.keys[i]
         IN  << <<k, IF v.val[k].t = "undefined" THEN JNull ELSE StringifyValue(v.val[k])>> >>
                \o StringifyMembers(v, i + 1)

StringifyValue(v) ==
    CASE v.t = "number" -> JNum(v.n)
      [] v.t = "boolean" -> JBool(v.b)
      [] v.t = "string" -> JStr(v.chars)
      [] v.t = "array" ->
            JArr([i \in 1..Len(v.items) |->
                    IF v.items[i].t = "undefined" THEN JNull
                    ELSE StringifyValue(v.items[i])])
      [] v.t = "object" -> JObj(StringifyMembers(v, 1))
      [] OTHER -> JNull

\* The members of object v from its i-th key on.
StringifyMembers(v, i) ==
    IF i > Len(v.keys) THEN <<>>
    ELSE LET k == v.keys[i]
         IN  (IF v.val[k].t = "undefined" THEN <<>>
              ELSE << <<k, StringifyValue(v.val[k])>> >>)
                \o StringifyMembers(v, i + 1)

\* What localStorage.setItem(STORAGE_KEY, JSON.stringify(p)) stores:
\* JSON.stringify(undefined) is undefined, stored as the string "undefined".
JsonStringify(p) ==
    IF p.t = "undefined" THEN RawText("undefined") ELSE JsonText(StringifyValue(p))

\* The value of a document: a key written twice keeps its first place and its
\* last value.
RECURSIVE ParseValue(_)
ParseValue(d) ==
    CASE d.t = "number" -> Num(d.n)
      [] d.t = "bool" -> Bool(d.b)
      [] d.t = "null" -> Null
      [] d.t = "string" -> Str(d.chars)
      [] d.t = "array" -> Arr([i \in 1..Len(d.items) |-> ParseValue(d.items[i])])
      [] d.t = "object" ->
            PutAll(EmptyObject,
                   [i \in 1..Len(d.members) |->
                       <<d.members[i][1], ParseValue(d.members[i][2])>>])

\* JSON.parse(text) either throws or returns a value.
JsonParseThrows(item) == item.kind = "raw"
JsonParse(item) == ParseValue(item.doc)

\* A string is truthy unless it is empty.
Truthy(item) == item.kind # "null" /\ ~(item.kind = "raw" /\ item.text = "")

\* ------------------------------------------------------------ the store

\* { lessonId: i, completed: false }
NewLesson(i) ==
    PutAll(EmptyObject, << <<"lessonId", Num(i)>>, <<"completed", Bool(FALSE)>> >>)

initialProgress ==
    PutAll(EmptyObject,
           << <<"currentLesson", Num(1)>>,
              <<"lessons", Arr([i \in 1..TOTAL_LESSONS |-> NewLesson(i)])>>,
              <<"overallProgress", Num(0)>> >>)

\* The useState initializer.
LoadProgress(saved) ==
    IF Truthy(saved)
    THEN IF JsonParseThrows(saved) THEN initialProgress ELSE JsonParse(saved)
    ELSE initialProgress

\* An optional number argument as a value.
ArgValue(arg) == IF arg = <<>> THEN Undefined ELSE Num(arg[1])

\* An omitted score keeps the score recorded before.
CompletedLesson_KeepsScore(l, quizScore) ==
    IF quizScore = <<>>
    THEN Spread(l, << <<"completed", Bool(TRUE)>> >>)
    ELSE Spread(l, << <<"completed", Bool(TRUE)>>, <<"quizScore", Num(quizScore[1])>> >>)

\* { ...l, completed: true, quizScore }
CompletedLesson(l, quizScore) ==
    Spread(l, << <<"completed", Bool(TRUE)>>, <<"quizScore", ArgValue(quizScore)>> >>)

\* prev.lessons.map(...) or its filter callback throws a TypeError: prev is
\* null or undefined, prev.lessons is no array, or an element is null.
UpdaterThrows(prev) ==
    \/ Nullish(prev)
    \/ Get(prev, "lessons").t # "array"
    \/ \E i \in 1..Len(Get(prev, "lessons").items) : Nullish(Get(prev, "lessons").items[i])

\* prev.lessons.map(l => l.lessonId === lessonId ? {...} : l), as a sequence
NewLessons(prev, lessonId, quizScore) ==
    LET lessons == Get(prev, "lessons").items
    IN  [i \in 1..Len(lessons) |->
            IF Get(lessons[i], "lessonId") = Num(lessonId)
            THEN CompletedLesson(lessons[i], quizScore)
            ELSE lessons[i]]

\* newLessons.filter(l => l.completed).length
CompletedCount(lessons) ==
    Cardinality({i \in 1..Len(lessons) : ToBoolean(Get(lessons[i], "completed"))})

\* The last lesson advances too.
NextLessonOf_PastLast(lessonId) == IF lessonId <= TOTAL_LESSONS THEN lessonId + 1 ELSE lessonId

NextLessonOf(lessonId) == IF lessonId < TOTAL_LESSONS THEN lessonId + 1 ELSE lessonId

\* The share of one lesson is added to overallProgress at every call.
CompleteLessonUpdate_AddsShare(prev, lessonId, quizScore) ==
    LET newLessons == NewLessons(prev, lessonId, quizScore)
    IN  Spread(prev,
               << <<"lessons", Arr(newLessons)>>,
                  <<"overallProgress",
                    Num(Get(prev, "overallProgress").n + MathRoundPercent(1, Len(newLessons)).n)>>,
                  <<"currentLesson", Num(NextLessonOf(lessonId))>> >>)

\* The updater passed to setProgress by completeLesson, when it does not throw.
CompleteLessonUpdate(prev, lessonId, quizScore) ==
    LET newLessons == NewLessons(prev, lessonId, quizScore)
    IN  Spread(prev,
               << <<"lessons", Arr(newLessons)>>,
                  <<"overallProgress",
                    MathRoundPercent(CompletedCount(newLessons), Len(newLessons))>>,
                  <<"currentLesson", Num(NextLessonOf(lessonId))>> >>)

\* The report is triggered one lesson early.
ReportsCompletion_OneEarly(newLessons) == CompletedCount(newLessons) >= TOTAL_LESSONS - 1

\* Whether the updater of completeLesson calls scorm.setComplete(),
\* given the lessons it computed.
ReportsCompletion(newLessons) == CompletedCount(newLessons) = TOTAL_LESSONS

\* The argument is clamped to the lessons that exist.
SetCurrentLessonUpdate_Clamped(prev, lessonId) ==
    Spread(prev, << <<"currentLesson",
                      Num(IF lessonId < 1 THEN 1
                          ELSE IF lessonId > TOTAL_LESSONS THEN TOTAL_LESSONS
                          ELSE lessonId)>> >>)

\* The updater passed to setProgress by setCurrentLesson.
SetCurrentLessonUpdate(prev, lessonId) == Spread(prev, << <<"currentLesson", Num(lessonId)>> >>)

\* The index of the element progress.lessons.find(l => l.lessonId === id)
\* returns, or 0 when it returns undefined.
FindLesson(lessons, id) ==
    LET found == {i \in 1..Len(lessons) :
                    ~Nullish(lessons[i]) /\ Get(lessons[i], "lessonId") = Num(id)}
    IN  IF found = {} THEN 0 ELSE CHOOSE i \in found : \A j \in found : i <= j

\* isLessonAccessible(lessonId) throws a TypeError: progress.lessons has no
\* find method, or find reads lessonId of a null element.
AccessibleThrows(p, lessonId) ==
    /\ lessonId # 1
    /\ \/ Nullish(p)
       \/ Get(p, "lessons").t # "array"
       \/ LET lessons == Get(p, "lessons").items
              first == FindLesson(lessons, lessonId - 1)
          IN  \E i \in 1..Len(lessons) : Nullish(lessons[i]) /\ (first = 0 \/ i < first)

\* The lesson's own flag is read instead of the previous lesson's.
isLessonAccessible_OwnFlag(p, lessonId) ==
    IF lessonId = 1 THEN Bool(TRUE)
    ELSE LET lessons == Get(p, "lessons").items
             first == FindLesson(lessons, lessonId)
         IN  IF first = 0 THEN Bool(FALSE)
             ELSE LET completed == Get(lessons[first], "completed")
                  IN  IF Nullish(completed) THEN Bool(FALSE) ELSE completed

\* isLessonAccessible(lessonId) when it does not throw: the value returned.
isLessonAccessible(p, lessonId) ==
    IF lessonId = 1 THEN Bool(TRUE)
    ELSE LET lessons == Get(p, "lessons").items
             first == FindLesson(lessons, lessonId - 1)
         IN  IF first = 0 THEN Bool(FALSE)
             ELSE LET previousLesson == lessons[first]
                      completed == Get(previousLesson, "completed")
                  IN  IF Nullish(completed) THEN Bool(FALSE) ELSE completed

\* ------------------------------------------------------ the SCORM wrapper

VARIABLES
    page,          \* "unloaded", "evaluated" (the module ran), "rendered" (the
                   \* component rendered), "mounted" (its effects ran) or
                   \* "crashed" (a render threw)
    scorm,         \* the singleton: [api, initialized, finishOnUnload]
    listeners,     \* registrations of the beforeunload/unload listener pair
    progress,      \* the store's state (useState)
    isInitialRef,  \* the state is the very object initialProgress
    storage,       \* localStorage item under STORAGE_KEY
    persistPending,\* the component rendered a new state and the persist
                   \* effect has not run yet
    op,            \* the last operation and its arguments
    ret,           \* what it returned
    calls,         \* the runtime calls it issued, in order, with the answers
    reports,       \* how many times it invoked scorm.setComplete()
    finishCount,   \* LMSFinish calls the runtime received during this page load
    terminated,    \* the session of this page load was terminated
    lms,           \* the runtime has a session open (its side of the protocol)
    search,        \* the constructor's runtime discovery: windows and call stack
    twin           \* a second run of the same store operations in a page
                   \* without runtime: its store, or NoTwin when none is kept

vars == <<page, scorm, listeners, progress, isInitialRef, storage, persistPending,
          op, ret, calls, reports, finishCount, terminated, lms, search, twin>>

Call(fn, args, res) == [fn |-> fn, args |-> args, res |-> res]

\* The fields of a constructed wrapper; api is TRUE when findAPI found a handle.
NewScorm(found) == [api |-> found, initialized |-> FALSE, finishOnUnload |-> TRUE]

\* Every method maps the wrapper w and the runtime's answers to
\* [w: the wrapper afterwards, ret, calls, hooks: listener pairs registered].
Outcome(w, r, cs, h) == [w |-> w, ret |-> r, calls |-> cs, hooks |-> h]

\* The handshake's answer is ignored.
initialize_IgnoresAnswer(w, a) ==
    IF w.initialized THEN Outcome(w, TRUE, <<>>, 0)
    ELSE IF ~w.api THEN Outcome(w, FALSE, <<>>, 0)
    ELSE Outcome([w EXCEPT !.initialized = TRUE], TRUE,
                 <<Call("LMSInitialize", <<"">>, a)>>,
                 IF w.finishOnUnload THEN 1 ELSE 0)

initialize(w, a) ==
    IF w.initialized THEN Outcome(w, TRUE, <<>>, 0)
    ELSE IF ~w.api THEN Outcome(w, FALSE, <<>>, 0)
    ELSE LET now == (a = "true")
         IN  Outcome([w EXCEPT !.initialized = now], now,
                     <<Call("LMSInitialize", <<"">>, a)>>,
                     IF now /\ w.finishOnUnload THEN 1 ELSE 0)

\* Only the handle is checked, not the handshake.
commit_HandleOnly(w, a) ==
    IF ~w.api THEN Outcome(w, FALSE, <<>>, 0)
    ELSE Outcome(w, a = "true", <<Call("LMSCommit", <<"">>, a)>>, 0)

commit(w, a) ==
    IF ~w.initialized \/ ~w.api THEN Outcome(w, FALSE, <<>>, 0)
    ELSE Outcome(w, a = "true", <<Call("LMSCommit", <<"">>, a)>>, 0)

\* The session stays active when the runtime rejects the finish request.
terminate_KeepsOnFailure(w, aCommit, aFinish) ==
    IF ~w.initialized \/ ~w.api THEN Outcome(w, FALSE, <<>>, 0)
    ELSE LET c == commit(w, aCommit)
         IN  Outcome([c.w EXCEPT !.initialized = (aFinish # "true")], aFinish = "true",
                     c.calls \o <<Call("LMSFinish", <<"">>, aFinish)>>, 0)

\* Only the handle is checked: a terminated session is terminated again.
terminate_HandleOnly(w, aCommit, aFinish) ==
    IF ~w.api THEN Outcome(w, FALSE, <<>>, 0)
    ELSE Outcome([w EXCEPT !.initialized = FALSE], aFinish = "true",
                 <<Call("LMSCommit", <<"">>, aCommit), Call("LMSFinish", <<"">>, aFinish)>>, 0)

terminate(w, aCommit, aFinish) ==
    IF ~w.initialized \/ ~w.api THEN Outcome(w, FALSE, <<>>, 0)
    ELSE LET c == commit(w, aCommit)
         IN  Outcome([c.w EXCEPT !.initialized = FALSE], aFinish = "true",
                     c.calls \o <<Call("LMSFinish", <<"">>, aFinish)>>, 0)

getValue(w, element, a) ==
    IF ~w.initialized \/ ~w.api THEN Outcome(w, "", <<>>, 0)
    ELSE Outcome(w, a, <<Call("LMSGetValue", <<element>>, a)>>, 0)

\* Only the handle is checked, not the handshake.
setValue_HandleOnly(w, element, value, a) ==
    IF ~w.api THEN Outcome(w, FALSE, <<>>, 0)
    ELSE Outcome(w, a = "true", <<Call("LMSSetValue", <<element, value>>, a)>>, 0)

setValue(w, element, value, a) ==
    IF ~w.initialized \/ ~w.api THEN Outcome(w, FALSE, <<>>, 0)
    ELSE Outcome(w, a = "true", <<Call("LMSSetValue", <<element, value>>, a)>>, 0)

getLastError(w, a) ==
    IF ~w.api THEN Outcome(w, "", <<>>, 0)
    ELSE Outcome(w, a, <<Call("LMSGetLastError", <<>>, a)>>, 0)

setLessonStatus(w, status, a) == setValue(w, "cmi.core.lesson_status", status, a)

getLessonStatus(w, a) == getValue(w, "cmi.core.lesson_status", a)

\* The commit is skipped when the status write was rejected.
setComplete_CommitsOnSuccess(w, aSet, aCommit) ==
    LET success == setLessonStatus(w, "completed", aSet)
    IN  IF success.ret
        THEN LET c == commit(success.w, aCommit)
             IN  Outcome(c.w, success.ret, success.calls \o c.calls, 0)
        ELSE success

setComplete(w, aSet, aCommit) ==
    LET success == setLessonStatus(w, "completed", aSet)
        c == commit(success.w, aCommit)
    IN  Outcome(c.w, success.ret, success.calls \o c.calls, 0)

getLearnerName(w, a) == getValue(w, "cmi.core.student_name", a)

getLearnerId(w, a) == getValue(w, "cmi.core.student_id", a)

isConnected(w) == w.api /\ w.initialized

\* One unload-time event: each of the n registered listeners calls terminate().
RECURSIVE FireListeners(_, _, _, _)
FireListeners(w, n, aCommit, aFinish) ==
    IF n = 0 THEN Outcome(w, FALSE, <<>>, 0)
    ELSE LET t == terminate(w, aCommit, aFinish)
             rest == FireListeners(t.w, n - 1, aCommit, aFinish)
         IN  Outcome(rest.w, FALSE, t.calls \o rest.calls, 0)

Finishes(cs) == Cardinality({i \in 1..Len(cs) : cs[i].fn = "LMSFinish"})

\* The runtime's side: an accepted LMSInitialize opens its session and an
\* LMSFinish closes it. Whether the session is open after the calls cs.
RECURSIVE ActiveAfter(_, _)
ActiveAfter(active, cs) ==
    IF cs = <<>> THEN active
    ELSE LET c == Head(cs)
         IN  ActiveAfter(CASE c.fn = "LMSInitialize" -> (active \/ c.res = "true")
                           [] c.fn = "LMSFinish" -> FALSE
                           [] OTHER -> active,
                         Tail(cs))

\* --------------------------------------------------------------- actions

\* The new state is kept only when the runtime accepted the report.
CompleteLessonRun_NeedsReport(prev, w, lessonId, quizScore, a) ==
    LET next == CompleteLessonUpdate(prev, lessonId, quizScore)
    IN  IF ReportsCompletion(Get(next, "lessons").items)
        THEN LET report == setComplete(w, a[1], a[2])
             IN  [progress |-> IF report.ret THEN next ELSE prev,
                  report |-> report, reports |-> 1]
        ELSE [progress |-> next, report |-> Outcome(w, FALSE, <<>>, 0), reports |-> 0]

\* The updater of completeLesson run on prev while the singleton is w and the
\* runtime answers a: the state it returns, what scorm.setComplete() did and
\* how often it was invoked. The return value of setComplete() is dropped.
CompleteLessonRun(prev, w, lessonId, quizScore, a) ==
    LET next == CompleteLessonUpdate(prev, lessonId, quizScore)
    IN  IF ReportsCompletion(Get(next, "lessons").items)
        THEN [progress |-> next, report |-> setComplete(w, a[1], a[2]), reports |-> 1]
        ELSE [progress |-> next, report |-> Outcome(w, FALSE, <<>>, 0), reports |-> 0]

Op(name, args) == [name |-> name, args |-> args]

\* No second run is kept.
NoTwin == [on |-> FALSE]

\* The store of a run: the hook's state and ref, the localStorage item and
\* whether a persist effect is queued.
StoreOf(p, initial, item, pending) ==
    [on |-> TRUE, progress |-> p, isInitialRef |-> initial, storage |-> item,
     persistPending |-> pending]

\* The store of the second run after it performed the operation name(args)
\* too. Its page has no runtime: its singleton is new ScormWrapper() without
\* a handle, which no method changes. The first render, the effects, the
\* handlers and the unload event do there what they do here; the wrapper's
\* methods and the beforeunload event are not store operations.
TwinAfter(name, args) ==
    IF ~twin.on THEN twin
    ELSE CASE name = "render" ->
                [twin EXCEPT !.progress = LoadProgress(twin.storage),
                             !.isInitialRef = (~Truthy(twin.storage)
                                                 \/ JsonParseThrows(twin.storage))]
           [] name = "mount" ->
                [twin EXCEPT !.storage = JsonStringify(twin.progress)]
           [] name = "completeLesson" ->
                IF UpdaterThrows(twin.progress) THEN twin
                ELSE [twin EXCEPT !.progress = CompleteLessonRun(twin.progress, NewScorm(FALSE),
                                                                 args[1], args[2],
                                                                 <<"true", "true">>).progress,
                                  !.isInitialRef = FALSE,
                                  !.persistPending = TRUE]
           [] name = "setCurrentLesson" ->
                [twin EXCEPT !.progress = SetCurrentLessonUpdate(twin.progress, args[1]),
                             !.isInitialRef = FALSE,
                             !.persistPending = TRUE]
           [] name = "resetProgress" ->
                [twin EXCEPT !.progress = initialProgress,
                             !.isInitialRef = TRUE,
                             !.storage = NoItem,
                             !.persistPending = ~twin.isInitialRef]
           [] name = "persistEffect" ->
                [twin EXCEPT !.storage = JsonStringify(twin.progress),
                             !.persistPending = FALSE]
           [] name = "unload" ->
                [twin EXCEPT !.progress = initialProgress,
                             !.isInitialRef = TRUE,
                             !.persistPending = FALSE]
           [] OTHER -> twin

\* What every operation records: the wrapper afterwards and the runtime's log.
Record(o, name, args, r, n) ==
    /\ scorm' = o.w
    /\ listeners' = listeners + o.hooks
    /\ op' = Op(name, args)
    /\ ret' = r
    /\ calls' = o.calls
    /\ reports' = n
    /\ finishCount' = finishCount + Finishes(o.calls)
    /\ terminated' = (terminated \/ Finishes(o.calls) > 0)
    /\ lms' = ActiveAfter(lms, o.calls)
    /\ twin' = TwinAfter(name, args)
    /\ UNCHANGED search

NoCalls == Outcome(scorm, FALSE, <<>>, 0)

\* The runtime answers only when it is asked: the answers to draw for an
\* operation that calls the runtime at most n times when the session is active.
Answers(active, n) ==
    IF active THEN [1..n -> RuntimeAnswers] ELSE {[i \in 1..n |-> "true"]}

\* completeLesson(lessonId, quizScore) reaches scorm.setComplete().
WillReport(lessonId, quizScore) ==
    /\ ~UpdaterThrows(progress)
    /\ ReportsCompletion(NewLessons(progress, lessonId, quizScore))

\* The page before it is loaded: nothing but localStorage exists.
Unloaded(item) ==
    /\ page = "unloaded"
    /\ scorm = NewScorm(FALSE)
    /\ listeners = 0
    /\ progress = initialProgress
    /\ isInitialRef = TRUE
    /\ storage = item
    /\ persistPending = FALSE
    /\ op = Op("none", <<>>)
    /\ ret = NoRet
    /\ calls = <<>>
    /\ reports = 0
    /\ finishCount = 0
    /\ terminated = FALSE
    /\ lms = FALSE

\* No discovery is modelled: Evaluate draws its outcome.
NoSearch == [pc |-> "none"]

Init == Unloaded(NoItem) /\ search = NoSearch /\ twin = NoTwin

\* The module is evaluated: new ScormWrapper() builds the singleton, which
\* any code of the page can call from now on. found is what findAPI returned.
Evaluate(found) ==
    /\ page = "unloaded"
    /\ page' = "evaluated"
    /\ scorm' = NewScorm(found)
    /\ listeners' = 0
    /\ op' = Op("evaluate", <<>>)
    /\ ret' = NoRet
    /\ calls' = <<>>
    /\ reports' = 0
    /\ finishCount' = 0
    /\ terminated' = FALSE
    /\ UNCHANGED <<progress, isInitialRef, storage, persistPending, lms, search, twin>>

\* The component renders for the first time: the useState initializer reads
\* localStorage. The effects of the render are queued.
Render ==
    /\ page = "evaluated"
    /\ page' = "rendered"
    /\ progress' = LoadProgress(storage)
    /\ isInitialRef' = (~Truthy(storage) \/ JsonParseThrows(storage))
    /\ Record(NoCalls, "render", <<>>, NoRet, 0)
    /\ UNCHANGED <<storage, persistPending>>

\* The effects of the first render run in order: scorm.initialize(), then
\* localStorage.setItem(STORAGE_KEY, JSON.stringify(progress)).
MountEffects(a) ==
    /\ page = "rendered"
    /\ page' = "mounted"
    /\ Record(initialize(scorm, a[1]), "mount", <<>>, NoRet, 0)
    /\ storage' = JsonStringify(progress)
    /\ UNCHANGED <<progress, isInitialRef, persistPending>>

\* The event handlers run on a mounted component whose effects have run:
\* React runs the pending effects of a render before it handles the next update.
Idle == page = "mounted" /\ ~persistPending

\* completeLesson(lessonId, quizScore): the updater runs and the component
\* renders with the new object; the persist effect is queued. When the updater
\* throws, the component is unmounted.
CompleteLesson(lessonId, quizScore, a) ==
    /\ Idle
    /\ IF ~UpdaterThrows(progress)
       THEN /\ LET run == CompleteLessonRun(progress, scorm, lessonId, quizScore, a)
               IN  /\ progress' = run.progress
                   /\ Record(run.report, "completeLesson", <<lessonId, quizScore>>,
                             NoRet, run.reports)
            /\ isInitialRef' = FALSE
            /\ persistPending' = TRUE
            /\ page' = page
       ELSE /\ page' = "crashed"
            /\ UNCHANGED <<progress, isInitialRef, persistPending>>
            /\ Record(NoCalls, "completeLesson", <<lessonId, quizScore>>, NoRet, 0)
    /\ UNCHANGED storage

\* setCurrentLesson(lessonId): the updater runs and the component renders
\* with the new object; the persist effect is queued.
SetCurrentLesson(lessonId) ==
    /\ Idle
    /\ progress' = SetCurrentLessonUpdate(progress, lessonId)
    /\ isInitialRef' = FALSE
    /\ persistPending' = TRUE
    /\ Record(NoCalls, "setCurrentLesson", <<lessonId>>, NoRet, 0)
    /\ UNCHANGED <<page, storage>>

\* resetProgress(): setProgress(initialProgress), then removeItem. When the
\* state changed (Object.is), the component renders again and the persist
\* effect is queued.
ResetProgress ==
    /\ Idle
    /\ progress' = initialProgress
    /\ isInitialRef' = TRUE
    /\ storage' = NoItem
    /\ persistPending' = ~isInitialRef
    /\ Record(NoCalls, "resetProgress", <<>>, NoRet, 0)
    /\ UNCHANGED page

\* The persist effect of a render after the first:
\* localStorage.setItem(STORAGE_KEY, JSON.stringify(progress)).
PersistEffect ==
    /\ page = "mounted"
    /\ persistPending
    /\ persistPending' = FALSE
    /\ storage' = JsonStringify(progress)
    /\ Record(NoCalls, "persistEffect", <<op.name>>, NoRet, 0)
    /\ UNCHANGED <<page, progress, isInitialRef>>

\* isLessonAccessible(lessonId): the closure of the latest render over its
\* progress, called by that render or later, whether or not the effects of
\* the render have run. It exists from the first render on. When it throws,
\* the component is unmounted and the effects still queued never run.
IsLessonAccessible(lessonId) ==
    /\ page \in {"rendered", "mounted"}
    /\ IF ~AccessibleThrows(progress, lessonId)
       THEN /\ page' = page
            /\ Record(NoCalls, "isLessonAccessible", <<lessonId>>,
                      ValueRet(isLessonAccessible(progress, lessonId)), 0)
       ELSE /\ page' = "crashed"
            /\ Record(NoCalls, "isLessonAccessible", <<lessonId>>, NoRet, 0)
    /\ UNCHANGED <<progress, isInitialRef, storage, persistPending>>

\* The beforeunload event: every listener registered for it calls
\* terminate(). The page is still there afterwards and returns to the event
\* loop, whether the navigation goes on or was cancelled.
BeforeUnload(a) ==
    /\ page # "unloaded"
    /\ Record(FireListeners(scorm, listeners, a[1], a[2]), "beforeunload", <<>>, NoRet, 0)
    /\ UNCHANGED <<page, progress, isInitialRef, storage, persistPending>>

\* The unload event: every listener registered for it calls terminate(),
\* then nothing of the page is left; an effect that has not run never runs.
Unload(a) ==
    /\ page # "unloaded"
    /\ calls' = FireListeners(scorm, listeners, a[1], a[2]).calls
    /\ finishCount' = finishCount + Finishes(calls')
    /\ terminated' = (terminated \/ Finishes(calls') > 0)
    /\ page' = "unloaded"
    /\ scorm' = NewScorm(FALSE)
    /\ listeners' = 0
    /\ progress' = initialProgress
    /\ isInitialRef' = TRUE
    /\ persistPending' = FALSE
    /\ op' = Op("unload", <<>>)
    /\ ret' = NoRet
    /\ reports' = 0
    /\ lms' = ActiveAfter(lms, calls')
    /\ twin' = TwinAfter("unload", <<>>)
    /\ UNCHANGED <<storage, search>>

\* ------------------------------------------------------ runtime discovery

\* A window hierarchy: which windows expose API, and each window's parent and
\* opener. Window 1 is the page's own window; a top window is its own parent;
\* NoWindow stands for null.
Windows == 1..MaxWindows

NoWindow == 0

Hierarchies ==
    [api : [Windows -> BOOLEAN],
     parent : [Windows -> Windows \cup {NoWindow}],
     opener : [Windows -> Windows \cup {NoWindow}]]

\* One evaluation of the while loop's condition on win and, when it holds,
\* of its body. The condition on a window is the same at every attempt, so
\* the loop stays at a window where it fails.
Hop(h, win) ==
    IF /\ ~h.api[win]
       /\ h.parent[win] # NoWindow
       /\ h.parent[win] # win
    THEN h.parent[win]
    ELSE win

\* Where the loop is after at most n more attempts, evaluated by halves; the
\* window reached half way, which is never NoWindow, is computed first.
RECURSIVE Hops(_, _, _)
Hops(h, win, n) ==
    IF n = 0 THEN win
    ELSE IF n = 1 THEN Hop(h, win)
    ELSE LET half == n \div 2
             mid == Hops(h, win, half)
         IN  IF mid = NoWindow THEN mid ELSE Hops(h, mid, n - half)

\* The while loop of findAPI: where it stops, having started at win.
ClimbParents(h, win) == Hops(h, win, maxAttempts)

\* One invocation of findAPI(win), up to its return or its recursive call.
findAPI(h, win) ==
    LET top == ClimbParents(h, win)
    IN  IF h.api[top] THEN [kind |-> "return", api |-> TRUE]
        ELSE IF h.opener[top] # NoWindow THEN [kind |-> "recurse", win |-> h.opener[top]]
        ELSE [kind |-> "return", api |-> FALSE]

\* The call stack is finite: the engine throws RangeError from the call that
\* exceeds it. A search that is deeper than there are windows has re-entered
\* a window it started from and repeats itself, so it reaches any finite
\* limit; a search that terminates never gets this deep.
StackLimit == MaxWindows + 1

\* new ScormWrapper() begins: findAPI(window) is called.
Construct(h) ==
    [pc |-> "call", h |-> h, win |-> 1, depth |-> 1, round |-> 1, api |-> FALSE]

SessionUnchanged ==
    UNCHANGED <<page, scorm, listeners, progress, isInitialRef, storage, persistPending, op, ret,
                calls, reports, finishCount, terminated, lms, twin>>

\* The innermost findAPI invocation runs.
FindAPI ==
    /\ search.pc = "call"
    /\ LET f == findAPI(search.h, search.win)
       IN  search' =
             IF f.kind = "return"
             THEN [search EXCEPT !.pc = "returned", !.api = f.api]
             ELSE IF search.depth < StackLimit
             THEN [search EXCEPT !.win = f.win, !.depth = @ + 1]
             ELSE [search EXCEPT !.pc = "overflow"]
    /\ SessionUnchanged

\* The constructor after a findAPI call returned: the second search, from
\* window.opener, or the end of construction.
Constructor ==
    /\ search.pc = "returned"
    /\ search' =
         IF search.round = 1 /\ ~search.api /\ search.h.opener[1] # NoWindow
         THEN [search EXCEPT !.pc = "call", !.win = search.h.opener[1],
                             !.depth = 1, !.round = 2]
         ELSE [search EXCEPT !.pc = "done"]
    /\ SessionUnchanged

\* The module is evaluated with the wrapper the constructor built.
EvaluateConstructed ==
    /\ search.pc = "done"
    /\ Evaluate(search.api)

\* ------------------------------------------- the wrapper's public methods

\* The singleton exists from module evaluation to unload.
Alive == page # "unloaded"

StoreUnchanged == UNCHANGED <<page, progress, isInitialRef, storage, persistPending>>

Initialize(a) ==
    /\ Alive
    /\ listeners < MaxHooks
    /\ LET o == initialize(scorm, a[1])
       IN  Record(o, "initialize", <<>>, BoolRet(o.ret), 0)
    /\ StoreUnchanged

Terminate(a) ==
    /\ Alive
    /\ LET o == terminate(scorm, a[1], a[2])
       IN  Record(o, "terminate", <<>>, BoolRet(o.ret), 0)
    /\ StoreUnchanged

GetValue(element, v) ==
    /\ Alive
    /\ LET o == getValue(scorm, element, v)
       IN  Record(o, "getValue", <<element>>, StrRet(o.ret), 0)
    /\ StoreUnchanged

SetValue(element, value, a) ==
    /\ Alive
    /\ LET o == setValue(scorm, element, value, a[1])
       IN  Record(o, "setValue", <<element, value>>, BoolRet(o.ret), 0)
    /\ StoreUnchanged

Commit(a) ==
    /\ Alive
    /\ LET o == commit(scorm, a[1])
       IN  Record(o, "commit", <<>>, BoolRet(o.ret), 0)
    /\ StoreUnchanged

GetLastError(v) ==
    /\ Alive
    /\ LET o == getLastError(scorm, v)
       IN  Record(o, "getLastError", <<>>, StrRet(o.ret), 0)
    /\ StoreUnchanged

SetLessonStatus(status, a) ==
    /\ Alive
    /\ LET o == setLessonStatus(scorm, status, a[1])
       IN  Record(o, "setLessonStatus", <<status>>, BoolRet(o.ret), 0)
    /\ StoreUnchanged

GetLessonStatus(v) ==
    /\ Alive
    /\ LET o == getLessonStatus(scorm, v)
       IN  Record(o, "getLessonStatus", <<>>, StrRet(o.ret), 0)
    /\ StoreUnchanged

SetComplete(a) ==
    /\ Alive
    /\ LET o == setComplete(scorm, a[1], a[2])
       IN  Record(o, "setComplete", <<>>, BoolRet(o.ret), 0)
    /\ StoreUnchanged

GetLearnerName(v) ==
    /\ Alive
    /\ LET o == getLearnerName(scorm, v)
       IN  Record(o, "getLearnerName", <<>>, StrRet(o.ret), 0)
    /\ StoreUnchanged

GetLearnerId(v) ==
    /\ Alive
    /\ LET o == getLearnerId(scorm, v)
       IN  Record(o, "getLearnerId", <<>>, StrRet(o.ret), 0)
    /\ StoreUnchanged

IsConnected ==
    /\ Alive
    /\ Record(NoCalls, "isConnected", <<>>, BoolRet(isConnected(scorm)), 0)
    /\ StoreUnchanged

\* The values the runtime may return to a read.
Values(active) == IF active THEN RuntimeValues ELSE {""}


\* --------------------------------------------------------- specifications

\* The steps of a page load after the module was evaluated.
Mount ==
    \/ Render
    \/ \E a \in Answers(scorm.api /\ ~scorm.initialized, 1) : MountEffects(a)

\* progress.currentLesson as a lesson id, when it is one.
CurrentLessonArgs ==
    {k \in LessonIdArgs : Get(progress, "currentLesson") = Num(k)}

\* One visit of the page inside an LMS that answers "true" to the handshake
\* and to what the unload-time listeners send, from module evaluation to the
\* unload event. The beforeunload event can occur any number of times in a
\* living page, a pending persist effect or an ended session included, and
\* any step of the page may follow it before the unload event. SpecSession
\* has the other sessions and answers, SpecLoad the visits that follow a
\* visit.
Visit ==
    \/ op.name = "none" /\ Evaluate(TRUE)
    \/ Render
    \/ MountEffects(<<"true">>)
    \/ PersistEffect
    \/ BeforeUnload(<<"true", "true">>)
    \/ Unload(<<"true", "true">>)

\* The course as the learner uses it: any lesson is made current, the
\* current lesson is completed, the course is reset, and the page asks which
\* lessons are accessible.
Next ==
    \/ Visit
    \/ \E lessonId \in LessonIdArgs : SetCurrentLesson(lessonId)
    \/ Idle /\ \E lessonId \in CurrentLessonArgs :
          \E a \in Answers(scorm.initialized /\ WillReport(lessonId, <<>>), 2) :
            CompleteLesson(lessonId, <<>>, a)
    \/ ResetProgress
    \/ \E lessonId \in AccessArgs : IsLessonAccessible(lessonId)

Spec == Init /\ [][Next]_vars

\* completeLesson under any arguments: any lesson id, whatever lesson is
\* current, with and without a quiz score.
NextLessons ==
    \/ Visit
    \/ Idle /\ \E lessonId \in LessonIdArgs : \E quizScore \in QuizScoreArgsFor(lessonId) :
          \E a \in Answers(scorm.initialized /\ WillReport(lessonId, quizScore), 2) :
            CompleteLesson(lessonId, quizScore, a)

SpecLessons == Init /\ [][NextLessons]_vars

\* The wrapper under any caller: the page, the unload events and every
\* public method of the singleton.
NextWrapper ==
    \/ \E found \in BOOLEAN : Evaluate(found)
    \/ Mount
    \/ \E a \in Answers(scorm.api, 1) : Initialize(a)
    \/ \E a \in Answers(scorm.initialized, 2) : Terminate(a)
    \/ \E element \in Elements : \E v \in Values(scorm.initialized) : GetValue(element, v)
    \/ \E element \in Elements, value \in LessonStatuses :
          \E a \in Answers(scorm.initialized, 1) : SetValue(element, value, a)
    \/ \E a \in Answers(scorm.initialized, 1) : Commit(a)
    \/ \E v \in Values(scorm.api) : GetLastError(v)
    \/ \E status \in LessonStatuses :
          \E a \in Answers(scorm.initialized, 1) : SetLessonStatus(status, a)
    \/ \E v \in Values(scorm.initialized) : GetLessonStatus(v)
    \/ \E a \in Answers(scorm.initialized, 2) : SetComplete(a)
    \/ \E v \in Values(scorm.initialized) : GetLearnerName(v)
    \/ \E v \in Values(scorm.initialized) : GetLearnerId(v)
    \/ IsConnected
    \/ \E a \in Answers(scorm.initialized, 2) : BeforeUnload(a)
    \/ \E a \in Answers(scorm.initialized, 2) : Unload(a)

SpecWrapper == Init /\ [][NextWrapper]_vars

\* Module evaluation on any window hierarchy, then the page load.
InitDiscovery ==
    Unloaded(NoItem) /\ (\E h \in Hierarchies : search = Construct(h)) /\ twin = NoTwin

NextDiscovery ==
    \/ FindAPI
    \/ Constructor
    \/ EvaluateConstructed
    \/ Mount

SpecDiscovery == InitDiscovery /\ [][NextDiscovery]_vars

\* The wrapper under the store and any other caller: the learner completes
\* the current lesson or resets the course while the singleton's methods and
\* the unload events occur in any order.
NextSession ==
    \/ NextWrapper
    \/ Idle /\ \E lessonId \in CurrentLessonArgs :
          \E a \in Answers(scorm.initialized /\ WillReport(lessonId, <<>>), 2) :
            CompleteLesson(lessonId, <<>>, a)
    \/ ResetProgress
    \/ PersistEffect

SpecSession == Init /\ [][NextSession]_vars

\* The lesson the learner jumps to: the last one, out of order.
JumpArgs == {TOTAL_LESSONS}

\* Two runs of the same store operations, the second in a page without
\* runtime, from the first page load on.
InitTwoRuns ==
    /\ Unloaded(NoItem)
    /\ search = NoSearch
    /\ twin = StoreOf(initialProgress, TRUE, NoItem, FALSE)

\* Every store operation, setCurrentLesson included, while the singleton's
\* methods and the unload events occur in any order.
NextTwoRuns ==
    \/ NextSession
    \/ \E lessonId \in JumpArgs : SetCurrentLesson(lessonId)

SpecTwoRuns == InitTwoRuns /\ [][NextTwoRuns]_vars

\* Snapshots no page load of this program wrote: the members in another
\* order, a foreign member, a foreign member of a lesson, a member whose key
\* is integer-like, members whose keys are integer-like or nearly so (above
\* 2^32 - 2, with a leading zero) in no order, a lesson that is null.
ForeignItems ==
    {JsonText(JObj(<< <<"overallProgress", JNum(0)>>,
                      <<"lessons", JArr(<< JObj(<< <<"completed", JBool(FALSE)>>,
                                                   <<"lessonId", JNum(1)>> >>) >>)>>,
                      <<"currentLesson", JNum(1)>> >>)),
     JsonText(JObj(<< <<"currentLesson", JNum(1)>>, <<"lessons", JArr(<<>>)>>,
                      <<"overallProgress", JNum(0)>>, <<"theme", JNum(1)>> >>)),
     JsonText(JObj(<< <<"currentLesson", JNum(1)>>,
                      <<"lessons", JArr(<< JObj(<< <<"lessonId", JNum(1)>>,
                                                   <<"completed", JBool(TRUE)>>,
                                                   <<"title", JNum(7)>> >>) >>)>>,
                      <<"overallProgress", JNum(100)>> >>)),
     JsonText(JObj(<< <<"currentLesson", JNum(1)>>, <<"lessons", JArr(<<>>)>>,
                      <<"overallProgress", JNum(0)>>, <<"0", JNum(1)>> >>)),
     JsonText(JObj(<< <<"currentLesson", JNum(1)>>, <<"10", JNum(2)>>,
                      <<"lessons", JArr(<<>>)>>, <<"2", JNum(3)>>,
                      <<"overallProgress", JNum(0)>>, <<"4294967295", JNum(4)>>,
                      <<"4294967294", JNum(5)>>, <<"01", JNum(6)>> >>)),
     JsonText(JObj(<< <<"currentLesson", JNum(1)>>, <<"lessons", JArr(<<JNull>>)>>,
                      <<"overallProgress", JNum(0)>> >>))}

\* What localStorage may hold under STORAGE_KEY when the page is first loaded:
\* nothing, an empty string, text that is not JSON, JSON that is no Course
\* Progress record, a snapshot written by an earlier page load, or a snapshot
\* that something else wrote.
StoredItems ==
    {NoItem, RawText(""), RawText("{not json"), JsonText(JObj(<<>>)), JsonText(JNull),
     JsonStringify(initialProgress),
     JsonStringify(CompleteLessonUpdate(initialProgress, 1, <<>>))}
      \cup ForeignItems

InitLoad == (\E item \in StoredItems : Unloaded(item)) /\ search = NoSearch /\ twin = NoTwin

\* Visit after visit, from any stored item: the page loads, the learner
\* completes the current lesson, with a score where the lesson has a quiz,
\* or resets the course, and the page goes away at any point.
NextLoad ==
    \/ \E found \in BOOLEAN : Evaluate(found)
    \/ Mount
    \/ Idle /\ \E lessonId \in CurrentLessonArgs : \E quizScore \in QuizScoreArgsFor(lessonId) :
          \E a \in Answers(scorm.initialized /\ WillReport(lessonId, quizScore), 2) :
            CompleteLesson(lessonId, quizScore, a)
    \/ ResetProgress
    \/ PersistEffect
    \/ \E a \in Answers(scorm.initialized, 2) : BeforeUnload(a)
    \/ \E a \in Answers(scorm.initialized, 2) : Unload(a)

SpecLoad == InitLoad /\ [][NextLoad]_vars

\* ----------------------------------------------------------------- claims

\* The last operation was name(args).
OpIs(name, args) == op.name = name /\ op.args = args

\* The lesson entries of a Course Progress p.
Lessons(p) == Get(p, "lessons").items

\* The lessons of p whose completed flag is true.
CompletedIn(p) == {i \in 1..Len(Lessons(p)) : Get(Lessons(p)[i], "completed") = Bool(TRUE)}

EveryLessonCompleted(p) == CompletedIn(p) = 1..Len(Lessons(p))

\* p is the canonical initial state: lesson 1 current, all N lessons incomplete, 0%.
IsCanonicalInitial(p) ==
    /\ Get(p, "currentLesson") = Num(1)
    /\ Get(p, "overallProgress") = Num(0)
    /\ Get(p, "lessons").t = "array"
    /\ Len(Lessons(p)) = TOTAL_LESSONS
    /\ \A i \in 1..TOTAL_LESSONS :
          /\ Get(Lessons(p)[i], "lessonId") = Num(i)
          /\ Get(Lessons(p)[i], "completed") = Bool(FALSE)

\* C1: in every state of the store, after any sequence of completeLesson,
\* setCurrentLesson and resetProgress calls, overallProgress is
\* round(100 * completedCount / 7): the integer within one half of it.
C1_OverallProgressIsRoundedShare ==
    LET c == Cardinality(CompletedIn(progress))
        pct == Get(progress, "overallProgress")
    IN  /\ pct.t = "number"
        /\ TOTAL_LESSONS * (2 * pct.n - 1) <= 200 * c
        /\ 200 * c < TOTAL_LESSONS * (2 * pct.n + 1)

\* C1 witness: three of seven lessons completed by completeLesson, 43%.
C1_Witness ==
    /\ op.name = "completeLesson"
    /\ Cardinality(CompletedIn(progress)) = 3
    /\ Get(progress, "overallProgress") = Num(43)

\* C2 as stated: a completeLesson call invokes the completion report exactly
\* when it changes the store from 'not every lesson completed' to 'every
\* lesson completed'.
C2_ReportOncePerTransition ==
    [][op'.name = "completeLesson" =>
         reports' = IF ~EveryLessonCompleted(progress) /\ EveryLessonCompleted(progress')
                    THEN 1 ELSE 0]_vars

\* C2 amended: the completion report is invoked exactly once by every
\* completeLesson call after which every lesson is completed, whether or not
\* every lesson was completed before the call, and by no other operation.
C2_ReportPerCompletingCall ==
    [][reports' = IF op'.name = "completeLesson" /\ EveryLessonCompleted(progress')
                  THEN 1 ELSE 0]_vars

\* C2 witness: completeLesson(8) matches no lesson, so every lesson was
\* completed before the call, and the report reached the runtime again.
C2_Witness ==
    /\ OpIs("completeLesson", <<TOTAL_LESSONS + 1, <<>>>>)
    /\ EveryLessonCompleted(progress)
    /\ reports = 1
    /\ Len(calls) = 2

\* C3 as stated: completeLesson(k) with 1 <= k < 7 sets currentLesson to
\* k + 1, and completeLesson(7) leaves currentLesson at the value it had
\* before the call.
C3_LastLessonKeepsCurrent ==
    [][op'.name = "completeLesson" =>
         LET k == op'.args[1]
         IN  /\ (1 <= k /\ k < TOTAL_LESSONS) => Get(progress', "currentLesson") = Num(k + 1)
             /\ k = TOTAL_LESSONS =>
                   Get(progress', "currentLesson") = Get(progress, "currentLesson")]_vars

\* C3 amended: completeLesson(k) with 1 <= k < 7 sets currentLesson to
\* k + 1, and completeLesson(7) sets currentLesson to 7, whatever value it
\* had before the call.
C3_LastLessonBecomesCurrent ==
    [][op'.name = "completeLesson" =>
         LET k == op'.args[1]
         IN  /\ (1 <= k /\ k < TOTAL_LESSONS) => Get(progress', "currentLesson") = Num(k + 1)
             /\ k = TOTAL_LESSONS => Get(progress', "currentLesson") = Num(TOTAL_LESSONS)]_vars

\* C3 witness: completeLesson(7) was called out of order (lesson 6 is not
\* completed) and lesson 7 is current.
C3_Witness ==
    /\ OpIs("completeLesson", <<TOTAL_LESSONS, <<>>>>)
    /\ Get(progress, "currentLesson") = Num(TOTAL_LESSONS)
    /\ (TOTAL_LESSONS - 1) \notin CompletedIn(progress)

\* What C4 says isLessonAccessible(k) is, for k >= 1.
AccessibleAsClaimed(p, k) ==
    \/ k = 1
    \/ \E i \in 1..Len(Lessons(p)) :
          /\ Get(Lessons(p)[i], "lessonId") = Num(k - 1)
          /\ Get(Lessons(p)[i], "completed") = Bool(TRUE)

\* C4: in every reachable store state isLessonAccessible(1) is true and, for
\* k > 1, isLessonAccessible(k) is true iff the lesson with lessonId k - 1 is
\* completed; a call isLessonAccessible(k) with k >= 1 returns that value
\* for its own k, and a call with any argument changes neither the store, the
\* persisted snapshot nor the session, and calls no runtime function.
C4_AccessibleIffPreviousCompleted ==
    /\ [](\A k \in LessonIdArgs \ {0} :
            /\ ~AccessibleThrows(progress, k)
            /\ isLessonAccessible(progress, k) = Bool(AccessibleAsClaimed(progress, k)))
    /\ [][op'.name = "isLessonAccessible" =>
            /\ op'.args[1] >= 1 =>
                  ret' = BoolRet(AccessibleAsClaimed(progress, op'.args[1]))
            /\ UNCHANGED <<page, progress, isInitialRef, storage, persistPending,
                           scorm, listeners>>
            /\ calls' = <<>>]_vars

\* C4 witness: isLessonAccessible(3) answered false while lesson 1 is
\* completed and lesson 2 is not: lesson 2 is accessible, lesson 3 is not.
C4_Witness ==
    /\ OpIs("isLessonAccessible", <<3>>)
    /\ ret = BoolRet(FALSE)
    /\ 1 \in CompletedIn(progress)
    /\ 2 \notin CompletedIn(progress)
    /\ isLessonAccessible(progress, 2) = Bool(TRUE)

\* C5: terminate() on a Connected-Active session issues LMSCommit and then
\* LMSFinish, leaves the session not active whatever the runtime answers, and
\* returns true exactly when the answer to LMSFinish is "true".
C5_TerminateCommitsThenFinishes ==
    [][(op'.name = "terminate" /\ scorm.api /\ scorm.initialized) =>
         /\ Len(calls') = 2
         /\ calls'[1].fn = "LMSCommit"
         /\ calls'[2].fn = "LMSFinish"
         /\ ~scorm'.initialized
         /\ ret' = BoolRet(calls'[2].res = "true")]_vars

\* C5 witness: terminate() whose commit and finish were both rejected by the
\* runtime, and the session is not active.
C5_Witness ==
    /\ op.name = "terminate"
    /\ Len(calls) = 2
    /\ calls[1].res = "false"
    /\ calls[2].res = "false"
    /\ ret = BoolRet(FALSE)
    /\ ~scorm.initialized

ReadMethods == {"getValue", "getLessonStatus", "getLearnerName", "getLearnerId"}

WriteMethods == {"setValue", "setLessonStatus", "setComplete", "commit"}

\* C6: while the session is not Connected-Active, the read methods return the
\* empty string and the write methods return false, none of them calls the
\* runtime and none changes the session.
C6_InactiveSessionDefaults ==
    [][(~(scorm.api /\ scorm.initialized) /\ op'.name \in ReadMethods \cup WriteMethods) =>
         /\ ret' = IF op'.name \in ReadMethods THEN StrRet("") ELSE BoolRet(FALSE)
         /\ calls' = <<>>
         /\ UNCHANGED <<scorm, listeners, finishCount, terminated>>]_vars

\* C6 witness: setComplete() on a session that has a runtime handle and was
\* terminated returned false and called nothing.
C6_Witness ==
    /\ op.name = "setComplete"
    /\ scorm.api
    /\ terminated
    /\ ~scorm.initialized
    /\ ret = BoolRet(FALSE)
    /\ calls = <<>>

\* C7: during one page load the runtime receives LMSFinish at most once, and
\* a session that was terminated is never Connected-Active again.
C7_TornDownOnce ==
    /\ finishCount <= 1
    /\ terminated => ~scorm.initialized

\* C8: initialize() on an active session returns true and calls nothing;
\* without a runtime handle it returns false and calls nothing; otherwise it
\* issues exactly one LMSInitialize("") and the session is active, and the
\* return value true, iff the answer is "true".
C8_InitializeCases ==
    [][op'.name = "initialize" =>
         IF scorm.initialized
         THEN ret' = BoolRet(TRUE) /\ calls' = <<>> /\ scorm' = scorm
         ELSE IF ~scorm.api
         THEN ret' = BoolRet(FALSE) /\ calls' = <<>> /\ scorm' = scorm
         ELSE /\ Len(calls') = 1
              /\ calls'[1].fn = "LMSInitialize"
              /\ calls'[1].args = <<"">>
              /\ scorm'.initialized = (calls'[1].res = "true")
              /\ ret' = BoolRet(calls'[1].res = "true")]_vars

\* C8 witness: initialize() whose handshake the runtime rejected: one call,
\* false returned, the session not active.
C8_Witness ==
    /\ op.name = "initialize"
    /\ Len(calls) = 1
    /\ calls[1].res = "false"
    /\ ret = BoolRet(FALSE)
    /\ ~scorm.initialized

\* resetProgress() has taken effect: the state update, and the persist effect
\* of the render that followed it when there was one, have run.
ResetTookEffect ==
    \/ op.name = "resetProgress" /\ ~persistPending
    \/ OpIs("persistEffect", <<"resetProgress">>)

\* C9: once resetProgress() has taken effect (the state update and the
\* persistence effect have run) the store is in the canonical initial state
\* and no snapshot is persisted under the storage key.
C9_ResetClearsSnapshot ==
    ResetTookEffect => (IsCanonicalInitial(progress) /\ storage = NoItem)

\* The keys of the members of a JSON object text.
MemberKeys(d) == {d.members[i][1] : i \in 1..Len(d.members)}

\* The text of the member of d whose key is k.
MemberOf(d, k) == d.members[CHOOSE i \in 1..Len(d.members) : d.members[i][1] = k][2]

\* The text of a lesson record: lessonId, completed and an optional
\* quizScore, each written once, in any order.
IsLessonText(d) ==
    /\ d.t = "object"
    /\ Len(d.members) = Cardinality(MemberKeys(d))
    /\ {"lessonId", "completed"} \subseteq MemberKeys(d)
    /\ MemberKeys(d) \subseteq {"lessonId", "completed", "quizScore"}
    /\ MemberOf(d, "lessonId").t = "number"
    /\ MemberOf(d, "completed").t = "bool"
    /\ "quizScore" \in MemberKeys(d) => MemberOf(d, "quizScore").t = "number"

\* The persisted item is the text of a well-formed Course Progress record.
IsCourseProgressText(item) ==
    /\ item.kind = "json"
    /\ item.doc.t = "object"
    /\ Len(item.doc.members) = 3
    /\ MemberKeys(item.doc) = {"currentLesson", "lessons", "overallProgress"}
    /\ MemberOf(item.doc, "currentLesson").t = "number"
    /\ MemberOf(item.doc, "overallProgress").t = "number"
    /\ MemberOf(item.doc, "lessons").t = "array"
    /\ \A i \in 1..Len(MemberOf(item.doc, "lessons").items) :
          IsLessonText(MemberOf(item.doc, "lessons").items[i])

\* C10: at construction the store starts in the canonical initial state when
\* the persisted snapshot is absent or is not a well-formed Course Progress
\* record, and in exactly the snapshot's state when it is one.
C10_LoadRestoresOrFallsBack ==
    [][op'.name = "render" =>
         IF IsCourseProgressText(storage)
         THEN JsonStringify(progress') = storage
         ELSE IsCanonicalInitial(progress')]_vars

\* C11: setComplete() on a Connected-Active session issues
\* LMSSetValue("cmi.core.lesson_status", "completed") and then LMSCommit(""),
\* in that order and also when the status write was rejected, and returns
\* true exactly when the answer to the status write is "true".
C11_SetCompleteWritesThenCommits ==
    [][(op'.name = "setComplete" /\ scorm.api /\ scorm.initialized) =>
         /\ Len(calls') = 2
         /\ calls'[1].fn = "LMSSetValue"
         /\ calls'[1].args = <<"cmi.core.lesson_status", "completed">>
         /\ calls'[2].fn = "LMSCommit"
         /\ ret' = BoolRet(calls'[1].res = "true")]_vars

\* C11 witness: setComplete() whose status write was rejected and whose
\* commit was accepted returned false after both calls.
C11_Witness ==
    /\ op.name = "setComplete"
    /\ Len(calls) = 2
    /\ calls[1].res = "false"
    /\ calls[2].res = "true"
    /\ ret = BoolRet(FALSE)


\* A value without its members that hold undefined: what a Course Progress
\* says, a quizScore that is undefined being no quizScore.
RECURSIVE Defined(_)
Defined(v) ==
    CASE v.t = "array" -> Arr([i \in 1..Len(v.items) |-> Defined(v.items[i])])
      [] v.t = "object" ->
            LET kept == {k \in DOMAIN v.val : v.val[k].t # "undefined"}
            IN  Obj(SelectSeq(v.keys, LAMBDA k : k \in kept),
                    [k \in kept |-> Defined(v.val[k])])
      [] OTHER -> v

\* A store mutation has taken effect: the state update, and the persist
\* effect of the render that followed it when there was one, have run.
MutationTookEffect ==
    /\ page = "mounted"
    /\ \/ op.name = "persistEffect"
       \/ op.name = "resetProgress" /\ ~persistPending

\* C12 as stated: after any completeLesson, setCurrentLesson or resetProgress
\* call has taken effect, the persisted snapshot is the text of the store's
\* current Course Progress.
C12_SnapshotEqualsProgress ==
    MutationTookEffect =>
        /\ IsCourseProgressText(storage)
        /\ JsonParse(storage) = Defined(progress)

\* C12 amended: once the persist effect that follows a completeLesson,
\* setCurrentLesson or resetProgress call has run, the persisted snapshot is
\* the text of the store's current Course Progress; after a resetProgress
\* call that no persist effect follows it is absent; in every case the
\* useState initializer reconstructs the current Course Progress from what is
\* stored.
C12_ReloadReconstructsProgress ==
    MutationTookEffect =>
        /\ Defined(LoadProgress(storage)) = Defined(progress)
        /\ IF op.name = "persistEffect"
           THEN IsCourseProgressText(storage) /\ JsonParse(storage) = Defined(progress)
           ELSE storage = NoItem

\* C12 witness: the persist effect that followed a completeLesson call wrote
\* lesson 1 as completed; its quizScore, which is undefined, is not in the
\* text, and a reload restores lesson 1 without that member.
C12_Witness ==
    /\ OpIs("persistEffect", <<"completeLesson">>)
    /\ 1 \in CompletedIn(progress)
    /\ Has(Lessons(progress)[1], "quizScore")
    /\ 1 \in CompletedIn(LoadProgress(storage))
    /\ ~Has(Lessons(LoadProgress(storage))[1], "quizScore")

\* C13: terminate() on a session that was terminated and not initialized
\* again returns false, calls nothing and changes nothing; one unload-time
\* event, whose listeners all call terminate(), sends at most one LMSFinish;
\* and the LMSFinish calls of a page load never outnumber its successful
\* initializations.
C13_SecondTerminateIsNoOp ==
    /\ [][(op'.name = "terminate" /\ terminated /\ ~scorm.initialized) =>
            /\ ret' = BoolRet(FALSE)
            /\ calls' = <<>>
            /\ UNCHANGED <<scorm, listeners, finishCount>>]_vars
    /\ [][op'.name \in {"beforeunload", "unload"} => Finishes(calls') <= 1]_vars
    /\ [](Alive => finishCount + (IF scorm.initialized THEN 1 ELSE 0) <= listeners)

\* C13 witness: the page went away after its session had been terminated
\* (by the beforeunload listeners or by a terminate() call): the unload
\* listeners called terminate() again, nothing reached the runtime, and the
\* page load sent one LMSFinish in all.
C13_Witness ==
    /\ op.name = "unload"
    /\ terminated
    /\ calls = <<>>
    /\ finishCount = 1

\* Lessons 1..n of p are completed and no other.
CompletedUpTo(p, n) == CompletedIn(p) = 1..n

\* round(100 * k / 7) for k = 1..7
ScenarioPercent == <<14, 29, 43, 57, 71, 86, 100>>

\* C14: from a fresh store, completeLesson(1) gives lessons[0].completed,
\* overallProgress 14 and currentLesson 2; every further step
\* completeLesson(k) of the in-order run completes lesson k, gives
\* overallProgress round(100 * k / 7) and currentLesson min(k + 1, 7), ending
\* at 100 and 7; the steps before the seventh invoke no completion report and
\* the seventh invokes exactly one.
C14_InOrderScenario ==
    /\ [][(op'.name = "completeLesson" /\ op'.args[1] = 1 /\ IsCanonicalInitial(progress)) =>
            /\ Get(Lessons(progress')[1], "completed") = Bool(TRUE)
            /\ Get(progress', "overallProgress") = Num(14)
            /\ Get(progress', "currentLesson") = Num(2)
            /\ reports' = 0]_vars
    /\ [][(op'.name = "completeLesson" /\ op'.args[1] \in 1..TOTAL_LESSONS) =>
            LET k == op'.args[1]
            IN  CompletedUpTo(progress, k - 1) =>
                  /\ CompletedUpTo(progress', k)
                  /\ Get(progress', "overallProgress") = Num(ScenarioPercent[k])
                  /\ Get(progress', "currentLesson") =
                        Num(IF k < TOTAL_LESSONS THEN k + 1 ELSE TOTAL_LESSONS)
                  /\ reports' = IF k = TOTAL_LESSONS THEN 1 ELSE 0]_vars

\* C14 witness: the end of the scenario: completeLesson(7) completed the last
\* open lesson: 100%, lesson 7 current, one report.
C14_Witness ==
    /\ OpIs("completeLesson", <<TOTAL_LESSONS, <<>>>>)
    /\ CompletedUpTo(progress, TOTAL_LESSONS)
    /\ Get(progress, "overallProgress") = Num(100)
    /\ Get(progress, "currentLesson") = Num(TOTAL_LESSONS)
    /\ reports = 1

\* Lesson entry l is completed and its quizScore is the argument: the number
\* given, or undefined when none was given.
CompletedWithScore(l, quizScore) ==
    /\ Get(l, "completed") = Bool(TRUE)
    /\ Get(l, "quizScore") = ArgValue(quizScore)

\* C15: completeLesson(lessonId, quizScore) leaves the lesson sequence with
\* length 7 and ids 1..7 in order; the entry whose lessonId matches is
\* completed with quizScore set to the argument and every other entry is
\* unchanged, so a lessonId matching no lesson changes no entry.
C15_ChangesExactlyMatchingLesson ==
    [][op'.name = "completeLesson" =>
         LET lessonId == op'.args[1]
             quizScore == op'.args[2]
         IN  /\ Len(Lessons(progress')) = TOTAL_LESSONS
             /\ \A i \in 1..TOTAL_LESSONS :
                   /\ Get(Lessons(progress')[i], "lessonId") = Num(i)
                   /\ IF i = lessonId
                      THEN CompletedWithScore(Lessons(progress')[i], quizScore)
                      ELSE Lessons(progress')[i] = Lessons(progress)[i]]_vars

\* C15 witness: completeLesson(1) without a score replaced the score 0 that
\* lesson 1 had by undefined, while lesson 2, completed earlier, and lesson
\* 3, not completed, are as they were.
C15_Witness ==
    /\ OpIs("completeLesson", <<1, <<>>>>)
    /\ storage = JsonStringify(CompleteLessonUpdate(
                     CompleteLessonUpdate(initialProgress, 2, <<>>), 1, <<0>>))
    /\ Get(Lessons(progress)[1], "quizScore") = Undefined
    /\ 2 \in CompletedIn(progress)
    /\ 3 \notin CompletedIn(progress)

\* C16: setCurrentLesson(lessonId) sets currentLesson to lessonId, whether or
\* not a lesson with that id exists or is accessible, leaves the lesson
\* sequence and overallProgress unchanged, calls no runtime function and does
\* not touch the session.
C16_SetCurrentLessonOverwrites ==
    [][op'.name = "setCurrentLesson" =>
         /\ Get(progress', "currentLesson") = Num(op'.args[1])
         /\ Lessons(progress') = Lessons(progress)
         /\ Get(progress', "overallProgress") = Get(progress, "overallProgress")
         /\ calls' = <<>>
         /\ reports' = 0
         /\ UNCHANGED <<scorm, listeners>>]_vars

\* C16 witness: setCurrentLesson(8) made a lesson current that does not
\* exist, in a store where nothing is completed.
C16_Witness ==
    /\ OpIs("setCurrentLesson", <<TOTAL_LESSONS + 1>>)
    /\ Get(progress, "currentLesson") = Num(TOTAL_LESSONS + 1)
    /\ CompletedIn(progress) = {}
    /\ isLessonAccessible(progress, TOTAL_LESSONS + 1) = Bool(FALSE)

\* C17: the Course Progress a completeLesson(k, s) call leaves is the one a
\* second completeLesson(k, s) call leaves, in every reachable state and for
\* every k and s; a completeLesson call on a store whose lessons are all
\* completed leaves every lesson completed and overallProgress at 100; and
\* overallProgress never exceeds 100.
C17_CompleteLessonIdempotent ==
    /\ [][op'.name = "completeLesson" =>
            CompleteLessonUpdate(progress', op'.args[1], op'.args[2]) = progress']_vars
    /\ [][(op'.name = "completeLesson" /\ EveryLessonCompleted(progress)) =>
            /\ EveryLessonCompleted(progress')
            /\ Get(progress', "overallProgress") = Num(100)]_vars
    /\ [](Idle => \A k \in LessonIdArgs : \A s \in QuizScoreArgsFor(k) :
            LET once == CompleteLessonUpdate(progress, k, s)
            IN  CompleteLessonUpdate(once, k, s) = once)
    /\ [](Get(progress, "overallProgress").n <= 100)

\* C17 witness: completeLesson(0) was called on a store whose lessons were
\* all completed (0 matches no lesson): all are completed still, at 100%.
C17_Witness ==
    /\ OpIs("completeLesson", <<0, <<>>>>)
    /\ EveryLessonCompleted(progress)
    /\ Get(progress, "overallProgress") = Num(100)
    /\ reports = 1

\* C18: on every window hierarchy, parent chains without a top window and
\* opener chains that lead back to a visited window included, runtime
\* discovery ends with a handle or with the wrapper Disconnected: it is never
\* ended by the call stack running out.
C18_DiscoveryTerminates == search.pc # "overflow"

\* The calls cs are in protocol when the runtime's session is open or not, as
\* active says, before them: LMSInitialize only while no session is open,
\* LMSGetValue, LMSSetValue, LMSCommit and LMSFinish only while one is.
RECURSIVE Conforms(_, _)
Conforms(active, cs) ==
    IF cs = <<>> THEN TRUE
    ELSE LET c == Head(cs)
         IN  /\ c.fn = "LMSInitialize" => ~active
             /\ c.fn \in {"LMSGetValue", "LMSSetValue", "LMSCommit", "LMSFinish"} => active
             /\ Conforms(ActiveAfter(active, <<c>>), Tail(cs))

\* C19: whatever the store, the callers of the wrapper and the unload events
\* do and in whatever order, every LMSGetValue, LMSSetValue, LMSCommit and
\* LMSFinish the runtime receives follows an LMSInitialize it answered "true"
\* with no LMSFinish in between, and it receives no LMSInitialize while its
\* session is open.
C19_CallsFollowProtocol == [][Conforms(lms, calls')]_vars

\* C19 witness: the completion report of completeLesson reached the runtime
\* in a session opened by initialize() after the first was terminated.
C19_Witness ==
    /\ op.name = "completeLesson"
    /\ reports = 1
    /\ Len(calls) = 2
    /\ terminated
    /\ lms

\* The public methods of the singleton.
WrapperMethods ==
    {"initialize", "terminate", "getValue", "setValue", "commit", "getLastError",
     "setLessonStatus", "getLessonStatus", "setComplete", "getLearnerName", "getLearnerId",
     "isConnected"}

\* C20: two runs of the same sequence of store operations (first render,
\* effects, completeLesson, setCurrentLesson, resetProgress, unload) hold the
\* same Course Progress and the same persisted snapshot after every step,
\* one run in a page whose session is made Disconnected, uninitialized,
\* Active and Terminated by page loads, by the wrapper's callers and by the
\* unload events, with any answers of the runtime, the other in a page
\* without runtime; no method of the wrapper and no beforeunload event
\* changes the progress or the snapshot, and the unload event leaves the
\* snapshot; and a completeLesson call that completes the last open lesson
\* yields overallProgress 100 whether its report is accepted, rejected or a
\* no-op.
C20_ProgressIndependentOfSession ==
    /\ [](twin = StoreOf(progress, isInitialRef, storage, persistPending))
    /\ [][op'.name \in WrapperMethods \cup {"evaluate", "beforeunload"} =>
            UNCHANGED <<progress, storage>>]_vars
    /\ [][op'.name = "unload" => storage' = storage]_vars
    /\ [][(op'.name = "completeLesson" /\ reports' = 1 /\ ~EveryLessonCompleted(progress)) =>
            Get(progress', "overallProgress") = Num(100)]_vars

\* C20 witness: completeLesson(7) completed the last open lesson in a
\* session that was Active, the runtime rejected the status write of its
\* report, and both runs are at 100% with the snapshot still to be written;
\* the second run, without runtime, sent nothing.
C20_Witness ==
    /\ OpIs("completeLesson", <<TOTAL_LESSONS, <<>>>>)
    /\ reports = 1
    /\ Len(calls) = 2
    /\ calls[1].res = "false"
    /\ Get(progress, "overallProgress") = Num(100)
    /\ persistPending
    /\ storage # JsonStringify(progress)
    /\ twin.on
    /\ twin.progress = progress
    /\ twin.storage = storage

====
